---- MODULE Spec2Model ----
(***************************************************************************)
(* Adaptive signal timing engine (traffic_signal_improved.py):             *)
(* TrafficSignalConfig, SignalTiming, TrafficSignalController.             *)
(*                                                                         *)
(* Units.  Python floats that are multiples of 0.5 are kept as integers in *)
(* HALF units: weighted_vehicle_count, vehicle_multiplier and the four     *)
(* weights hold 2*x.  A count times a weight in half units is a weighted   *)
(* count in half units.  All other numbers are plain integers (seconds,    *)
(* vehicles).  A timestamp is the clock reading at the call.               *)
(*                                                                         *)
(* The orchestration around the engine: CameraCapture                      *)
(* (camera_capture_improved.py) with its background capture thread, and    *)
(* TrafficManagementSystem.run_continuous (traffic_management_system.py).  *)
(***************************************************************************)
EXTENDS Integers, Sequences, FiniteSets, TLC

VARIABLES
    config,     \* self.config of the engines (TrafficSignalConfig)
    store,      \* the backing file signal_timing_history.json
    history,    \* history[e]: self.history of engine e
    alive,      \* alive[e]: the process owning engine e is running
    result,     \* what the last operation did and returned
    clock,      \* datetime.now(): advances with every call
    failed,     \* failed[e]: indices of history[e] whose persist failed
    system,     \* the TrafficManagementSystem inside run_continuous
    camera      \* the CameraCapture: its fields and its threads

vars == <<config, store, history, alive, result, clock, failed, system, camera>>

----------------------------------------------------------------------------
(* Bounds of the model *)

MaxCalls == 2

Engines == {"e1", "e2"}

----------------------------------------------------------------------------
(* Helpers for Python's numeric semantics *)

Abs(n) == IF n >= 0 THEN n ELSE -n

\* int(n / d) for d > 0: Python's int() truncates toward zero
Trunc(n, d) == IF n >= 0 THEN n \div d ELSE -((-n) \div d)

Max2(a, b) == IF a >= b THEN a ELSE b
Min2(a, b) == IF a <= b THEN a ELSE b

Last(s) == s[Len(s)]

\* s[-n:]
Tail_n(s, n) == IF Len(s) <= n THEN s ELSE SubSeq(s, Len(s) - n + 1, Len(s))

RECURSIVE SumSeq(_)
SumSeq(s) == IF s = <<>> THEN 0 ELSE s[1] + SumSeq(Tail(s))

\* sum(d.values()) of a dict d
RECURSIVE SumValues(_)
SumValues(d) ==
    IF DOMAIN d = {} THEN 0
    ELSE LET k == CHOOSE x \in DOMAIN d : TRUE
         IN d[k] + SumValues([x \in DOMAIN d \ {k} |-> d[x]])

----------------------------------------------------------------------------
(* TrafficSignalConfig *)

DefaultConfig ==
    [ min_green_time     |-> 15,
      max_green_time     |-> 120,
      base_green_time    |-> 30,
      vehicle_multiplier |-> 4,     \* 2.0
      yellow_time        |-> 3,
      all_red_time       |-> 2,
      car_weight         |-> 2,     \* 1.0
      motorcycle_weight  |-> 1,     \* 0.5
      bus_weight         |-> 4,     \* 2.0
      truck_weight       |-> 3 ]    \* 1.5

\* an override passed at construction: a narrow range, 1.5 s per vehicle
NarrowConfig ==
    [ DefaultConfig EXCEPT !.min_green_time = 20, !.max_green_time = 45,
                           !.base_green_time = 20, !.vehicle_multiplier = 3,
                           !.yellow_time = 4, !.all_red_time = 0 ]

Configs == {DefaultConfig, NarrowConfig}

----------------------------------------------------------------------------
(* The timing algorithms *)

\* a clamp that forgets the upper bound
ClampTimeNoMax(c, t) == Max2(c.min_green_time, t)

\* a clamp that forgets the lower bound
ClampTimeNoMin(c, t) == Min2(c.max_green_time, t)

\* a clamp that cuts at the base time instead of the maximum
ClampTimeAtBase(c, t) == Max2(c.min_green_time, Min2(c.base_green_time, t))

\* _clamp_time
ClampTime(c, t) == Max2(c.min_green_time, Min2(c.max_green_time, t))

\* calculate_weighted_vehicles: stats is a dict from type name to count
Weights(c) ==
    [ car |-> c.car_weight, motorcycle |-> c.motorcycle_weight,
      bus |-> c.bus_weight, truck |-> c.truck_weight ]

\* a weighted sum that counts every key, unknown ones with weight 1.0
CalculateWeightedVehiclesAll(c, stats) ==
    SumValues([k \in DOMAIN stats |->
                  IF k \in DOMAIN Weights(c) THEN stats[k] * Weights(c)[k]
                  ELSE stats[k] * 2])

CalculateWeightedVehicles(c, stats) ==
    SumValues([k \in DOMAIN stats \cap DOMAIN Weights(c) |->
                  stats[k] * Weights(c)[k]])

\* a linear algorithm that leaves out the multiplier: base + w
LinearAlgorithmNoMultiplier(c, w2) ==
    ClampTime(c, Trunc(2 * c.base_green_time + w2, 2))

\* a linear algorithm that starts from the minimum green time
LinearAlgorithmFromMin(c, w2) ==
    ClampTime(c, Trunc(4 * c.min_green_time + w2 * c.vehicle_multiplier, 4))

\* linear_algorithm: int(base + w * multiplier), clamped; w2 = 2*w
LinearAlgorithm(c, w2) ==
    ClampTime(c, Trunc(4 * c.base_green_time + w2 * c.vehicle_multiplier, 4))

\* floor(15 * math.log(w + 1)) for w = w2/2, w2 = 1 .. 204
Log15Table ==
    << 6, 10, 13, 16, 18, 20, 22, 24, 25, 26, 28, 29, 30, 31, 32, 32, 33,
       34, 35, 35, 36, 37, 37, 38, 39, 39, 40, 40, 41, 41, 42, 42, 42, 43,
       43, 44, 44, 44, 45, 45, 46, 46, 46, 47, 47, 47, 47, 48, 48, 48, 49,
       49, 49, 49, 50, 50, 50, 51, 51, 51, 51, 51, 52, 52, 52, 52, 53, 53,
       53, 53, 53, 54, 54, 54, 54, 54, 55, 55, 55, 55, 55, 56, 56, 56, 56,
       56, 56, 57, 57, 57, 57, 57, 57, 58, 58, 58, 58, 58, 58, 58, 59, 59,
       59, 59, 59, 59, 59, 60, 60, 60, 60, 60, 60, 60, 61, 61, 61, 61, 61,
       61, 61, 61, 62, 62, 62, 62, 62, 62, 62, 62, 62, 63, 63, 63, 63, 63,
       63, 63, 63, 63, 64, 64, 64, 64, 64, 64, 64, 64, 64, 64, 65, 65, 65,
       65, 65, 65, 65, 65, 65, 65, 66, 66, 66, 66, 66, 66, 66, 66, 66, 66,
       66, 66, 67, 67, 67, 67, 67, 67, 67, 67, 67, 67, 67, 67, 68, 68, 68,
       68, 68, 68, 68, 68, 68, 68, 68, 68, 69, 69, 69, 69, 69, 69, 69, 69 >>

\* int(base + x) for a non-integer x > 0 with floor f
TruncSum(base, f) == IF base + f >= 0 THEN base + f ELSE base + f + 1

\* a logarithmic algorithm that multiplies the logarithm by the count
\* instead of 15: base + w * log(w + 1)
LogarithmicAlgorithmByCount(c, w2) ==
    IF w2 <= 0 THEN c.min_green_time
    ELSE ClampTime(c, TruncSum(c.base_green_time, (w2 * Log15Table[w2]) \div 30))

\* a logarithmic algorithm without the early return: log(0 + 1) = 0
LogarithmicAlgorithmNoEdge(c, w2) ==
    IF w2 <= 0 THEN ClampTime(c, c.base_green_time)
    ELSE ClampTime(c, TruncSum(c.base_green_time, Log15Table[w2]))

\* logarithmic_algorithm
LogarithmicAlgorithm(c, w2) ==
    IF w2 <= 0 THEN c.min_green_time
    ELSE ClampTime(c, TruncSum(c.base_green_time, Log15Table[w2]))

\* statistics.mean of the weighted counts of recent, compared exactly:
\* w > 1.5 * (S/n)  <=>  2*n*w2 > 3*S2,   w < 0.5 * (S/n)  <=>  2*n*w2 < S2
WeightedSum(recent) ==
    SumSeq([i \in 1..Len(recent) |-> recent[i].weighted_vehicle_count])

\* an adaptive algorithm that takes the mean over the whole history
AdaptiveAlgorithmWholeHistory(c, h, w2) ==
    LET base_time == LinearAlgorithm(c, w2)
        n         == Len(h)
        S2        == WeightedSum(h)
        scaled    == IF Len(h) >= 10
                     THEN IF 2 * n * w2 > 3 * S2
                          THEN Trunc(12 * base_time, 10)
                          ELSE IF 2 * n * w2 < S2
                               THEN Trunc(8 * base_time, 10)
                               ELSE base_time
                     ELSE base_time
    IN ClampTime(c, scaled)

\* an adaptive algorithm that consults any non-empty history
AdaptiveAlgorithmEager(c, h, w2) ==
    LET base_time == LinearAlgorithm(c, w2)
        recent    == Tail_n(h, 20)
        n         == Len(recent)
        S2        == WeightedSum(recent)
        scaled    == IF Len(h) >= 1
                     THEN IF 2 * n * w2 > 3 * S2
                          THEN Trunc(12 * base_time, 10)
                          ELSE IF 2 * n * w2 < S2
                               THEN Trunc(8 * base_time, 10)
                               ELSE base_time
                     ELSE base_time
    IN ClampTime(c, scaled)

\* an adaptive algorithm whose scalings are exchanged: 0.8 above 1.5 times
\* the mean, 1.2 below half the mean
AdaptiveAlgorithmSwapped(c, h, w2) ==
    LET base_time == LinearAlgorithm(c, w2)
        recent    == Tail_n(h, 20)
        n         == Len(recent)
        S2        == WeightedSum(recent)
        scaled    == IF Len(h) >= 10
                     THEN IF 2 * n * w2 > 3 * S2
                          THEN Trunc(8 * base_time, 10)
                          ELSE IF 2 * n * w2 < S2
                               THEN Trunc(12 * base_time, 10)
                               ELSE base_time
                     ELSE base_time
    IN ClampTime(c, scaled)

\* adaptive_algorithm
AdaptiveAlgorithm(c, h, w2) ==
    LET base_time == LinearAlgorithm(c, w2)
        recent    == Tail_n(h, 20)
        n         == Len(recent)
        S2        == WeightedSum(recent)
        scaled    == IF Len(h) >= 10
                     THEN IF 2 * n * w2 > 3 * S2
                          THEN Trunc(12 * base_time, 10)
                          ELSE IF 2 * n * w2 < S2
                               THEN Trunc(8 * base_time, 10)
                               ELSE base_time
                     ELSE base_time
    IN ClampTime(c, scaled)

AlgorithmNames == {"linear", "logarithmic", "adaptive"}

\* algorithms[algorithm](weighted_count)
RunAlgorithm(c, h, algorithm, w2) ==
    CASE algorithm = "linear"      -> LinearAlgorithm(c, w2)
      [] algorithm = "logarithmic" -> LogarithmicAlgorithm(c, w2)
      [] algorithm = "adaptive"    -> AdaptiveAlgorithm(c, h, w2)

----------------------------------------------------------------------------
(* SignalTiming and its JSON form *)

FieldNames ==
    { "green_time", "yellow_time", "all_red_time", "total_cycle_time",
      "vehicle_count", "weighted_vehicle_count", "timestamp", "algorithm" }

IntFields ==
    { "green_time", "yellow_time", "all_red_time", "total_cycle_time",
      "vehicle_count" }

\* json.dump of a Python int: an optional minus sign and the digits
JsonInt(n) == <<"int", n < 0, Abs(n), 0>>

\* a float written without its fraction
JsonFloatRounded(w2) == <<"float", w2 < 0, Abs(w2) \div 2, 0>>

\* json.dump of a Python float x = w2/2: repr(x), as in "-10.5" or "3.0"
JsonFloat(w2) ==
    <<"float", w2 < 0, Abs(w2) \div 2, IF Abs(w2) % 2 = 1 THEN 5 ELSE 0>>

\* json.dump of a Python str
JsonStr(s) == <<"str", s>>

\* json.load of a number token, in units: 1 for an int field, 2 for halves
JsonNumber(tok, units) ==
    LET mag == IF tok[1] = "float"
               THEN Trunc(units * (10 * tok[3] + tok[4]), 10)
               ELSE units * tok[3]
    IN IF tok[2] THEN -mag ELSE mag

\* asdict(t) followed by json.dump: one JSON object per record
EncodeTiming(t) ==
    [ f \in FieldNames |->
        IF f \in IntFields THEN JsonInt(t[f])
        ELSE IF f = "weighted_vehicle_count" THEN JsonFloat(t[f])
        ELSE JsonStr(t[f]) ]

\* json.load followed by SignalTiming(**item), for an item with the right keys
DecodeTiming(item) ==
    [ f \in FieldNames |->
        IF item[f][1] = "str" THEN item[f][2]
        ELSE JsonNumber(item[f], IF f = "weighted_vehicle_count" THEN 2 ELSE 1) ]

\* SignalTiming(**item) raises TypeError on a missing or an unexpected key
ItemLoads(item) == DOMAIN item = FieldNames

----------------------------------------------------------------------------
(* The backing file *)

MissingStore == [kind |-> "missing", items |-> <<>>]
\* a file json.load rejects (an empty or cut-off file included)
CorruptStore == [kind |-> "corrupt", items |-> <<>>]
JsonStore(items) == [kind |-> "json", items |-> items]

\* [SignalTiming(**item) for item in data]: the list is built item by item
\* and an exception at one item abandons the whole comprehension
RECURSIVE BuildTimings(_, _)
BuildTimings(items, acc) ==
    IF items = <<>> THEN [ok |-> TRUE, list |-> acc]
    ELSE IF ~ItemLoads(Head(items)) THEN [ok |-> FALSE, list |-> acc]
    ELSE BuildTimings(Tail(items), Append(acc, DecodeTiming(Head(items))))

\* a load that keeps the records built before the failing item
LoadHistoryPartial(cur, st) ==
    IF st.kind = "json" THEN BuildTimings(st.items, <<>>).list ELSE cur

\* _load_history: cur is self.history before the call
LoadHistory(cur, st) ==
    IF st.kind = "missing" THEN cur
    ELSE IF st.kind = "corrupt" THEN cur
    ELSE LET built == BuildTimings(st.items, <<>>)
         IN IF built.ok THEN built.list ELSE cur

\* a save that adds the newest record to what the file holds
SaveHistoryIncremental(st, h, io) ==
    CASE io = "ok"          -> JsonStore(st.items \o <<EncodeTiming(Last(h))>>)
      [] io = "open_fails"  -> st
      [] io = "write_fails" -> CorruptStore

\* a save that runs before the new record is in the history
SaveHistoryStale(st, h, io) ==
    CASE io = "ok"          -> JsonStore([i \in 1..(Len(h) - 1) |-> EncodeTiming(h[i])])
      [] io = "open_fails"  -> st
      [] io = "write_fails" -> CorruptStore

\* _save_history: the file after the call.  io is what the file system does:
\* "ok", "open_fails" (open raises, the file is untouched) or "write_fails"
\* (open has truncated the file and the write raises)
SaveHistory(st, h, io) ==
    CASE io = "ok"          -> JsonStore([i \in 1..Len(h) |-> EncodeTiming(h[i])])
      [] io = "open_fails"  -> st
      [] io = "write_fails" -> CorruptStore

IoOutcomes == {"ok", "open_fails", "write_fails"}

----------------------------------------------------------------------------
(* What the backing file holds when the engines are constructed *)

\* a record as an earlier run with the default configuration wrote it
OldTiming(w2, ts) ==
    LET g == LinearAlgorithm(DefaultConfig, w2)
    IN [ green_time |-> g, yellow_time |-> 3, all_red_time |-> 2,
         total_cycle_time |-> g + 5, vehicle_count |-> w2 \div 2,
         weighted_vehicle_count |-> w2, timestamp |-> ts,
         algorithm |-> "linear" ]

\* n records of an earlier run: the oldest saw 100 vehicles, the others 10
OldRun(n) ==
    [ i \in 1..n |-> EncodeTiming(OldTiming(IF i = 1 THEN 200 ELSE 20, i - n)) ]

\* an item without its "algorithm" key
LacksField(item) == [ f \in FieldNames \ {"algorithm"} |-> item[f] ]

\* an item with a key SignalTiming does not have
ExtraField(item) ==
    [ f \in FieldNames \cup {"note"} |->
        IF f = "note" THEN JsonStr("checked") ELSE item[f] ]

\* a record edited by hand: green time and algorithm of no configuration
EditedItem ==
    [ EncodeTiming(OldTiming(21, -1)) EXCEPT
        !["green_time"] = JsonInt(500), !["algorithm"] = JsonStr("manual") ]

InitialStores ==
    { MissingStore,
      CorruptStore,
      JsonStore(<<>>),
      JsonStore(OldRun(9)),
      JsonStore(OldRun(20)),
      JsonStore(<<OldRun(2)[1], LacksField(OldRun(2)[2])>>),
      JsonStore(<<ExtraField(OldRun(1)[1])>>),
      JsonStore(<<EditedItem>>) }

----------------------------------------------------------------------------
(* Arguments of calculate_signal_timing.  An optional argument is <<>> for *)
(* None and <<v>> for a value v; a dict is a function on its keys.         *)

None == <<>>
Some(v) == <<v>>

EmptyDict == [k \in {} |-> 0]

Args(vc, vs, alg) ==
    [vehicle_count |-> vc, vehicle_stats |-> vs, algorithm |-> alg]

CallArgs ==
    { Args(None, None, "adaptive"),
      Args(Some(5), None, "linear"),
      Args(Some(-1), None, "linear"),
      Args(Some(100), None, "logarithmic"),
      Args(Some(40), None, "adaptive"),
      Args(Some(7), Some(EmptyDict), "adaptive"),
      Args(None, Some([car |-> 5, bus |-> 2, motorcycle |-> 3, total |-> 10]),
           "linear"),
      Args(Some(3), Some([car |-> 0]), "logarithmic"),
      Args(None, Some([car |-> 2, bicycle |-> 3]), "adaptive"),
      Args(None, Some([truck |-> -1]), "linear"),
      Args(Some(5), None, "fastest") }

\* Python truthiness of the vehicle_stats argument: None and {} are falsy
Truthy(vs) == vs # None /\ DOMAIN vs[1] # {}

\* vehicle_count or 0
OrZero(vc) == IF vc = None \/ vc[1] = 0 THEN 0 ELSE vc[1]

\* lines 178-184: the weighted count (half units) and the raw count
WeightedCount(c, a) ==
    IF Truthy(a.vehicle_stats)
    THEN CalculateWeightedVehicles(c, a.vehicle_stats[1])
    ELSE 2 * OrZero(a.vehicle_count)

TotalCount(a) ==
    IF Truthy(a.vehicle_stats)
    THEN IF "total" \in DOMAIN a.vehicle_stats[1]
         THEN a.vehicle_stats[1]["total"]
         ELSE SumValues(a.vehicle_stats[1])
    ELSE OrZero(a.vehicle_count)

\* a lookup that falls back to the default algorithm
SelectAlgorithmDefault(alg) ==
    IF alg \in {"linear", "logarithmic", "adaptive"} THEN <<alg>>
    ELSE <<"adaptive">>

\* lines 187-194: the name is looked up in the dict of algorithms; None
\* stands for the ValueError raised on a name that is not a key
SelectAlgorithm(alg) == IF alg \in AlgorithmNames THEN Some(alg) ELSE None

\* an append that keeps only the 20 newest records
AppendTimingCapped(h, timing) ==
    Append(IF Len(h) >= 20 THEN Tail(h) ELSE h, timing)

\* line 211: self.history.append(timing)
AppendTiming(h, timing) == Append(h, timing)

\* a SignalTiming whose green time also depends on the time of the call
NewTimingTimeOfDay(c, h, a, now) ==
    LET weighted_count == WeightedCount(c, a)
        green_time     == ClampTime(c,
                             RunAlgorithm(c, h, SelectAlgorithm(a.algorithm)[1],
                                          weighted_count) + (now % 2))
    IN [ green_time             |-> green_time,
         yellow_time            |-> c.yellow_time,
         all_red_time           |-> c.all_red_time,
         total_cycle_time       |-> green_time + c.yellow_time + c.all_red_time,
         vehicle_count          |-> TotalCount(a),
         weighted_vehicle_count |-> weighted_count,
         timestamp              |-> now,
         algorithm              |-> a.algorithm ]

\* a SignalTiming whose total leaves out the all-red time
NewTimingNoAllRed(c, h, a, now) ==
    LET weighted_count == WeightedCount(c, a)
        green_time     == RunAlgorithm(c, h, SelectAlgorithm(a.algorithm)[1],
                                       weighted_count)
    IN [ green_time             |-> green_time,
         yellow_time            |-> c.yellow_time,
         all_red_time           |-> c.all_red_time,
         total_cycle_time       |-> green_time + c.yellow_time,
         vehicle_count          |-> TotalCount(a),
         weighted_vehicle_count |-> weighted_count,
         timestamp              |-> now,
         algorithm              |-> a.algorithm ]

\* lines 196-208: the SignalTiming the call builds
NewTiming(c, h, a, now) ==
    LET weighted_count == WeightedCount(c, a)
        green_time     == RunAlgorithm(c, h, SelectAlgorithm(a.algorithm)[1],
                                       weighted_count)
    IN [ green_time             |-> green_time,
         yellow_time            |-> c.yellow_time,
         all_red_time           |-> c.all_red_time,
         total_cycle_time       |-> green_time + c.yellow_time + c.all_red_time,
         vehicle_count          |-> TotalCount(a),
         weighted_vehicle_count |-> weighted_count,
         timestamp              |-> now,
         algorithm              |-> a.algorithm ]

----------------------------------------------------------------------------
(* CameraCapture and TrafficManagementSystem: the values of their fields *)

\* the caller's thread and the slots of the background capture threads
LoopThreads == {"t1", "t2"}
Threads == {"main"} \cup LoopThreads

\* a thread's position: pc, and inside initialize_camera the loop variable
\* attempt, the sleeps done so far, and the caller it returns to
Local(pc, attempt, waits, from) ==
    [pc |-> pc, attempt |-> attempt, waits |-> waits, from |-> from]

\* CameraCapture.__init__: no handle, no thread, an empty queue
IdleCamera ==
    [ cap            |-> "none",
      is_running     |-> FALSE,
      frame_queue    |-> 0,
      capture_thread |-> <<>>,
      thread         |-> [t \in Threads |->
                             IF t = "main" THEN Local("idle", 0, 0, "")
                             ELSE Local("none", 0, 0, "")],
      returned       |-> [op |-> "", value |-> "none"] ]

\* a TrafficManagementSystem that is not inside run_continuous
IdleSystem ==
    [ pc |-> "idle", algorithm |-> "adaptive", max_cycles |-> <<>>,
      cycle_count |-> 0, started |-> 0, sleeps |-> 0, last |-> "none" ]

----------------------------------------------------------------------------
(* The state machine *)

NoArgs == Args(None, None, "")

\* f"Unknown algorithm: {algorithm}"
UnknownAlgorithm(alg) == <<"Unknown algorithm: ", alg>>

\* what an operation leaves in result
Outcome(op, e, a, io, kind, rec, err) ==
    [ op |-> op, engine |-> e, args |-> a, io |-> io,
      kind |-> kind, record |-> rec, error |-> err ]

Init ==
    /\ config \in Configs
    /\ store \in InitialStores
    /\ history = [e \in Engines |-> LoadHistory(<<>>, store)]
    /\ alive = [e \in Engines |-> TRUE]
    /\ result = Outcome("init", "e1", NoArgs, "", "none", None, <<>>)
    /\ clock = 0
    /\ failed = [e \in Engines |-> {}]
    /\ system = IdleSystem
    /\ camera = IdleCamera

\* TrafficSignalController.__init__: a new engine in slot e, in a new or in
\* the running process
Construct(e) ==
    /\ history' = [history EXCEPT ![e] = LoadHistory(<<>>, store)]
    /\ alive' = [alive EXCEPT ![e] = TRUE]
    /\ failed' = [failed EXCEPT ![e] = {}]
    /\ result' = Outcome("construct", e, NoArgs, "", "none", None, <<>>)
    /\ UNCHANGED <<config, store, clock, system, camera>>

\* calculate_signal_timing raising ValueError at line 194
CallRaises(e, a) ==
    /\ SelectAlgorithm(a.algorithm) = None
    /\ result' = Outcome("calculate", e, a, "", "error", None,
                         UnknownAlgorithm(a.algorithm))
    /\ clock' = clock + 1
    /\ UNCHANGED <<config, store, history, alive, failed>>

\* calculate_signal_timing returning a record; io is what the file system
\* does to _save_history
CallReturns(e, a, io) ==
    /\ SelectAlgorithm(a.algorithm) # None
    /\ LET timing == NewTiming(config, history[e], a, clock + 1)
           h      == AppendTiming(history[e], timing)
       IN /\ history' = [history EXCEPT ![e] = h]
          /\ store' = SaveHistory(store, h, io)
          /\ failed' = [failed EXCEPT ![e] =
                           IF io = "ok" THEN @ ELSE @ \cup {Len(h)}]
          /\ result' = Outcome("calculate", e, a, io, "record", Some(timing), <<>>)
    /\ clock' = clock + 1
    /\ UNCHANGED <<config, alive>>

CalculateSignalTiming(e, a, io) ==
    /\ alive[e]
    /\ clock < MaxCalls
    /\ \/ CallRaises(e, a)
       \/ CallReturns(e, a, io)
    /\ UNCHANGED <<system, camera>>

\* the process dies inside _save_history, after open(..., 'w') has truncated
\* the file and before the history is written and flushed
CrashInSave(e, a) ==
    /\ alive[e]
    /\ clock < MaxCalls
    /\ SelectAlgorithm(a.algorithm) # None
    /\ store' = CorruptStore
    /\ history' = [history EXCEPT ![e] = <<>>]
    /\ alive' = [alive EXCEPT ![e] = FALSE]
    /\ failed' = [failed EXCEPT ![e] = {}]
    /\ result' = Outcome("crash_in_save", e, a, "", "none", None, <<>>)
    /\ clock' = clock + 1
    /\ UNCHANGED <<config, system, camera>>

\* the process dies between two calls
CrashBetweenCalls(e) ==
    /\ alive[e]
    /\ history' = [history EXCEPT ![e] = <<>>]
    /\ alive' = [alive EXCEPT ![e] = FALSE]
    /\ failed' = [failed EXCEPT ![e] = {}]
    /\ result' = Outcome("crash", e, NoArgs, "", "none", None, <<>>)
    /\ UNCHANGED <<config, store, clock, system, camera>>

\* one engine in one process; the file system and the process do not fail
Next ==
    \E e \in {"e1"} :
        \/ Construct(e)
        \/ \E a \in CallArgs : CalculateSignalTiming(e, a, "ok")

Spec == Init /\ [][Next]_vars

\* the same engine when a save may fail and the process may die
NextFaults ==
    \E e \in {"e1"} :
        \/ Construct(e)
        \/ \E a \in CallArgs, io \in IoOutcomes : CalculateSignalTiming(e, a, io)
        \/ \E a \in CallArgs : CrashInSave(e, a)
        \/ CrashBetweenCalls(e)

SpecFaults == Init /\ [][NextFaults]_vars

\* the public methods a caller (test_system.py) invokes on the engine
\* directly; they read the configuration and the history and change nothing

\* the weighted counts (half units) of a direct call: a few negative ones,
\* every count up to 30 vehicles, and the counts around 100 vehicles
DirectCounts == ((-4)..60) \cup {200, 202, 204}

\* the mappings of a direct call of calculate_weighted_vehicles
StatsInputs ==
    { EmptyDict,
      [car |-> 5, bus |-> 2, motorcycle |-> 3],
      [car |-> 5, bus |-> 2, motorcycle |-> 3, total |-> 10],
      [car |-> 1, motorcycle |-> 1, bus |-> 1, truck |-> 1],
      [car |-> 2, bicycle |-> 3],
      [total |-> 4],
      [car |-> 0] }

\* what a direct call leaves in result: the argument and the value returned
Returned(op, e, a, value) == Outcome(op, e, a, "", "value", Some(value), <<>>)

\* controller.linear_algorithm(w), w = w2/2
CallLinearAlgorithm(e, w2) ==
    /\ alive[e]
    /\ result' = Returned("linear_algorithm", e, Args(Some(w2), None, "linear"),
                          LinearAlgorithm(config, w2))
    /\ UNCHANGED <<config, store, history, alive, clock, failed, system, camera>>

\* controller.logarithmic_algorithm(w)
CallLogarithmicAlgorithm(e, w2) ==
    /\ alive[e]
    /\ result' = Returned("logarithmic_algorithm", e,
                          Args(Some(w2), None, "logarithmic"),
                          LogarithmicAlgorithm(config, w2))
    /\ UNCHANGED <<config, store, history, alive, clock, failed, system, camera>>

\* controller.adaptive_algorithm(w)
CallAdaptiveAlgorithm(e, w2) ==
    /\ alive[e]
    /\ result' = Returned("adaptive_algorithm", e,
                          Args(Some(w2), None, "adaptive"),
                          AdaptiveAlgorithm(config, history[e], w2))
    /\ UNCHANGED <<config, store, history, alive, clock, failed, system, camera>>

\* controller.calculate_weighted_vehicles(stats)
CallCalculateWeightedVehicles(e, stats) ==
    /\ alive[e]
    /\ result' = Returned("calculate_weighted_vehicles", e,
                          Args(None, Some(stats), ""),
                          CalculateWeightedVehicles(config, stats))
    /\ UNCHANGED <<config, store, history, alive, clock, failed, system, camera>>

NextAlgorithms ==
    \E e \in {"e1"} :
        \/ \E w2 \in DirectCounts : CallLinearAlgorithm(e, w2)
        \/ \E w2 \in DirectCounts : CallLogarithmicAlgorithm(e, w2)
        \/ \E w2 \in DirectCounts : CallAdaptiveAlgorithm(e, w2)
        \/ \E stats \in StatsInputs : CallCalculateWeightedVehicles(e, stats)

SpecAlgorithms == Init /\ [][NextAlgorithms]_vars

\* configurations whose times reach zero and below: a base time of -5 s
\* with a multiplier of 0.5, and a base time of 0 s above a negative minimum
NegativeConfig ==
    [ DefaultConfig EXCEPT !.min_green_time = -10, !.max_green_time = 20,
                           !.base_green_time = -5, !.vehicle_multiplier = 1 ]

ZeroBaseConfig ==
    [ DefaultConfig EXCEPT !.min_green_time = -10, !.max_green_time = 20,
                           !.base_green_time = 0, !.vehicle_multiplier = 1 ]

\* direct calls of adaptive_algorithm and linear_algorithm on engines with
\* these and the other configurations
InitAdaptive ==
    /\ config \in Configs \cup {NegativeConfig, ZeroBaseConfig}
    /\ store \in InitialStores
    /\ history = [e \in Engines |-> LoadHistory(<<>>, store)]
    /\ alive = [e \in Engines |-> TRUE]
    /\ result = Outcome("init", "e1", NoArgs, "", "none", None, <<>>)
    /\ clock = 0
    /\ failed = [e \in Engines |-> {}]
    /\ system = IdleSystem
    /\ camera = IdleCamera

NextAdaptive ==
    \/ \E w2 \in DirectCounts : CallAdaptiveAlgorithm("e1", w2)
    \/ \E w2 \in DirectCounts : CallLinearAlgorithm("e1", w2)

SpecAdaptive == InitAdaptive /\ [][NextAdaptive]_vars

\* get_statistics

\* statistics.mean of a non-empty list of ints, kept as the exact fraction
\* total / n
Mean(xs) == [total |-> SumSeq(xs), n |-> Len(xs)]

\* max(xs) and min(xs) of a non-empty list
MaxOf(xs) == CHOOSE m \in {xs[i] : i \in 1..Len(xs)} :
                 \A i \in 1..Len(xs) : xs[i] <= m
MinOf(xs) == CHOOSE m \in {xs[i] : i \in 1..Len(xs)} :
                 \A i \in 1..Len(xs) : m <= xs[i]

NoData == [message |-> "No historical data available"]

\* a summary over the whole history
SummaryOfAll(c, h) ==
    LET greens == [i \in 1..Len(h) |-> h[i].green_time]
    IN [ total_cycles          |-> Len(h),
         recent_cycles         |-> Len(h),
         avg_green_time        |-> Mean(greens),
         avg_vehicle_count     |-> Mean([i \in 1..Len(h) |-> h[i].vehicle_count]),
         max_green_time        |-> MaxOf(greens),
         min_green_time        |-> MinOf(greens),
         total_wait_time_saved |->
             SumSeq([i \in 1..Len(h) |->
                        IF greens[i] > c.base_green_time
                        THEN greens[i] - c.base_green_time ELSE 0]) ]

\* lines 221-232: the summary over recent = self.history[-50:]
Summary(c, h) ==
    LET recent == Tail_n(h, 50)
        greens == [i \in 1..Len(recent) |-> recent[i].green_time]
    IN [ total_cycles          |-> Len(h),
         recent_cycles         |-> Len(recent),
         avg_green_time        |-> Mean(greens),
         avg_vehicle_count     |-> Mean([i \in 1..Len(recent) |->
                                            recent[i].vehicle_count]),
         max_green_time        |-> MaxOf(greens),
         min_green_time        |-> MinOf(greens),
         total_wait_time_saved |->
             SumSeq([i \in 1..Len(recent) |->
                        IF greens[i] > c.base_green_time
                        THEN greens[i] - c.base_green_time ELSE 0]) ]

\* statistics of an engine that summarises an empty history as well;
\* statistics.mean([]) raises StatisticsError
StatisticsUnguarded(c, h) ==
    IF h = <<>> THEN [kind |-> "error", value |-> <<"StatisticsError">>]
    ELSE [kind |-> "statistics", value |-> Summary(c, h)]

\* get_statistics: what it returns
Statistics(c, h) ==
    IF h = <<>> THEN [kind |-> "message", value |-> NoData]
    ELSE [kind |-> "statistics", value |-> Summary(c, h)]

GetStatistics(e) ==
    /\ alive[e]
    /\ LET s == Statistics(config, history[e])
       IN result' = Outcome("get_statistics", e, NoArgs, "", s.kind,
                            Some(s.value), <<>>)
    /\ UNCHANGED <<config, store, history, alive, clock, failed, system, camera>>

\* a run long enough for the window of 50: 51 records
LongStore == JsonStore(OldRun(51))

InitStatistics ==
    /\ config \in Configs
    /\ store \in InitialStores \cup {LongStore}
    /\ history = [e \in Engines |-> LoadHistory(<<>>, store)]
    /\ alive = [e \in Engines |-> TRUE]
    /\ result = Outcome("init", "e1", NoArgs, "", "none", None, <<>>)
    /\ clock = 0
    /\ failed = [e \in Engines |-> {}]
    /\ system = IdleSystem
    /\ camera = IdleCamera

\* an engine whose owner asks for the statistics between calls
NextStatistics ==
    \E e \in {"e1"} :
        \/ Construct(e)
        \/ \E a \in CallArgs : CalculateSignalTiming(e, a, "ok")
        \/ GetStatistics(e)

SpecStatistics == InitStatistics /\ [][NextStatistics]_vars

\* two engines over one backing file, each constructed over it; their calls
\* never overlap (each step is one whole call)
NextShared ==
    \E e \in Engines :
        \/ Construct(e)
        \/ \E a \in CallArgs : CalculateSignalTiming(e, a, "ok")

SpecShared == Init /\ [][NextShared]_vars

----------------------------------------------------------------------------
(* CameraCapture: the caller's thread "main" and the background threads    *)
(* running capture_loop.  A step is one access to the shared fields; how   *)
(* long a sleep or a device operation takes is left open.                  *)

EngineVars == <<config, store, history, alive, result, clock, failed>>

\* max_retries in initialize_camera
MaxRetries == 3

\* queue.Queue(maxsize=10)
QueueMaxSize == 10

\* what the device does to one open attempt, and to one frame capture
OpenOutcomes == {"ok", "open_fails", "read_fails"}
ReadOutcomes == {"ok", "read_fails", "save_fails"}

Pc(t) == camera.thread[t].pc

\* the value an operation of the caller has returned
Return(c, op, value) ==
    [c EXCEPT !.thread["main"] = Local("idle", 0, 0, ""),
              !.returned = [op |-> op, value |-> value]]

\* the caller is inside op
Pending(op) == [op |-> op, value |-> "pending"]

\* capture_single_image returning path ("path" or "none") in thread t: to
\* the caller, or into capture_loop (lines 183-191), where a path goes to
\* frame_queue.put and None to initialize_camera
AfterCapture(c, t, path) ==
    IF t = "main" THEN Return(c, "capture_single_image", path)
    ELSE IF path = "path" THEN [c EXCEPT !.thread[t] = Local("loop_put", 0, 0, "")]
    ELSE [c EXCEPT !.thread[t] = Local("init", 0, 0, "reinit")]

\* initialize_camera returning ok in thread t: to the caller, into
\* capture_single_image (lines 99-101), or into capture_loop, which sleeps
\* (5 s more after a failure) and checks is_running again
AfterInit(c, t, ok) ==
    CASE c.thread[t].from = "caller"  ->
             Return(c, "initialize_camera", IF ok THEN "true" ELSE "false")
      [] c.thread[t].from = "capture" ->
             IF ok THEN [c EXCEPT !.thread[t] = Local("capture_read", 0, 0, "")]
             ELSE AfterCapture(c, t, "none")
      [] c.thread[t].from = "reinit"  ->
             [c EXCEPT !.thread[t] = Local("loop_sleep", 0, 0, "")]

\* one pass of the for loop of initialize_camera that never gives up
InitAttemptEndless(c, t, outcome) ==
    IF outcome = "ok" THEN AfterInit([c EXCEPT !.cap = "open"], t, TRUE)
    ELSE [c EXCEPT !.cap = "none",
                   !.thread[t].attempt = Min2(@ + 1, MaxRetries),
                   !.thread[t].pc = "init_sleep"]

\* one pass of the for loop of initialize_camera (lines 51-84): open the
\* device and read a test frame; on a failure release the handle, and sleep
\* unless this was the last attempt
InitAttempt(c, t, outcome) ==
    IF outcome = "ok" THEN AfterInit([c EXCEPT !.cap = "open"], t, TRUE)
    ELSE LET d == [c EXCEPT !.cap = "none", !.thread[t].attempt = @ + 1]
         IN IF d.thread[t].attempt < MaxRetries
            THEN [d EXCEPT !.thread[t].pc = "init_sleep"]
            ELSE AfterInit(d, t, FALSE)

\* the caller invokes initialize_camera
CallInitializeCamera ==
    /\ Pc("main") = "idle"
    /\ camera' = [camera EXCEPT !.thread["main"] = Local("init", 0, 0, "caller"),
                                !.returned = Pending("initialize_camera")]
    /\ UNCHANGED <<EngineVars, system>>

InitializeCameraAttempt(t, outcome) ==
    /\ Pc(t) = "init"
    /\ camera' = InitAttempt(camera, t, outcome)
    /\ UNCHANGED <<EngineVars, system>>

\* time.sleep(retry_delay)
InitializeCameraSleep(t) ==
    /\ Pc(t) = "init_sleep"
    /\ camera' = [camera EXCEPT !.thread[t].pc = "init",
                                !.thread[t].waits = @ + 1]
    /\ UNCHANGED <<EngineVars, system>>

\* the caller invokes capture_single_image
CallCaptureSingleImage ==
    /\ Pc("main") = "idle"
    /\ camera' = [camera EXCEPT !.thread["main"].pc = "capture",
                                !.returned = Pending("capture_single_image")]
    /\ UNCHANGED <<EngineVars, system>>

\* lines 99-101: without an open handle, initialize the camera first
CaptureCheck(t) ==
    /\ Pc(t) = "capture"
    /\ camera' = IF camera.cap = "none"
                 THEN [camera EXCEPT !.thread[t] = Local("init", 0, 0, "capture")]
                 ELSE [camera EXCEPT !.thread[t].pc = "capture_read"]
    /\ UNCHANGED <<EngineVars, system>>

\* lines 103-133: read a frame and save it; a handle that another thread
\* has set to None meanwhile raises, which is caught, and None is returned
CaptureRead(t, outcome) ==
    /\ Pc(t) = "capture_read"
    /\ camera' = AfterCapture(camera, t,
                     IF camera.cap = "open" /\ outcome = "ok"
                     THEN "path" ELSE "none")
    /\ UNCHANGED <<EngineVars, system>>

\* start_continuous_capture (lines 172-204); t is the new thread
Start(c, t) ==
    IF c.is_running
    THEN [c EXCEPT !.returned = [op |-> "start_continuous_capture",
                                 value |-> "none"]]
    ELSE [c EXCEPT !.is_running = TRUE,
                   !.capture_thread = <<t>>,
                   !.thread[t] = Local("loop_check", 0, 0, ""),
                   !.returned = [op |-> "start_continuous_capture",
                                 value |-> "none"]]

StartContinuousCapture(t) ==
    /\ Pc("main") = "idle"
    /\ Pc(t) \in {"none", "exited"}
    /\ camera' = Start(camera, t)
    /\ UNCHANGED <<EngineVars, system>>

\* while self.is_running
LoopCheck(t) ==
    /\ Pc(t) = "loop_check"
    /\ camera' = [camera EXCEPT !.thread[t].pc =
                     IF camera.is_running THEN "capture" ELSE "exited"]
    /\ UNCHANGED <<EngineVars, system>>

\* self.frame_queue.put(image_path): blocks while the queue is full
LoopPut(t) ==
    /\ Pc(t) = "loop_put"
    /\ camera.frame_queue < QueueMaxSize
    /\ camera' = [camera EXCEPT !.frame_queue = @ + 1,
                                !.thread[t].pc = "loop_sleep"]
    /\ UNCHANGED <<EngineVars, system>>

\* time.sleep(interval)
LoopSleep(t) ==
    /\ Pc(t) = "loop_sleep"
    /\ camera' = [camera EXCEPT !.thread[t].pc = "loop_check"]
    /\ UNCHANGED <<EngineVars, system>>

\* stop_continuous_capture (lines 206-213) up to the join; op is "stop" or,
\* when release calls it, "release"
StopContinuousCapture(op) ==
    /\ Pc("main") = "idle"
    /\ camera' =
          IF camera.is_running /\ camera.capture_thread # <<>>
          THEN [camera EXCEPT !.is_running = FALSE,
                              !.thread["main"] = Local("join", 0, 0, op),
                              !.returned = Pending(op)]
          ELSE IF op = "release"
               THEN [camera EXCEPT !.is_running = FALSE,
                                   !.thread["main"].pc = "release_cap",
                                   !.returned = Pending(op)]
               ELSE [camera EXCEPT !.is_running = FALSE,
                                   !.returned = [op |-> "stop", value |-> "none"]]
    /\ UNCHANGED <<EngineVars, system>>

\* where a thread can spend the 5 seconds of the join timeout: in a sleep,
\* blocked in frame_queue.put, or waiting for the device
SlowPositions == {"loop_sleep", "init_sleep", "loop_put", "init", "capture_read"}

\* self.capture_thread.join(timeout=5) returns: the thread has exited or
\* the 5 seconds are over
JoinReturns ==
    /\ Pc("main") = "join"
    /\ Pc(camera.capture_thread[1]) \in {"exited"} \cup SlowPositions
    /\ camera' =
          IF camera.thread["main"].from = "release"
          THEN [camera EXCEPT !.thread["main"] = Local("release_cap", 0, 0, "")]
          ELSE Return(camera, "stop", "none")
    /\ UNCHANGED <<EngineVars, system>>

\* release (lines 249-256) after stop_continuous_capture has returned
ReleaseCap ==
    /\ Pc("main") = "release_cap"
    /\ camera' = Return([camera EXCEPT !.cap = "none"], "release", "none")
    /\ UNCHANGED <<EngineVars, system>>

\* get_latest_capture: a path from the queue, or None after the timeout
GetLatestCapture ==
    /\ Pc("main") = "idle"
    /\ camera' =
          IF camera.frame_queue > 0
          THEN [camera EXCEPT !.frame_queue = @ - 1,
                              !.returned = [op |-> "get_latest_capture",
                                            value |-> "path"]]
          ELSE [camera EXCEPT !.returned = [op |-> "get_latest_capture",
                                            value |-> "none"]]
    /\ UNCHANGED <<EngineVars, system>>

\* a step of thread t inside initialize_camera or capture_single_image
CameraStep(t) ==
    \/ \E outcome \in OpenOutcomes : InitializeCameraAttempt(t, outcome)
    \/ InitializeCameraSleep(t)
    \/ CaptureCheck(t)
    \/ \E outcome \in ReadOutcomes : CaptureRead(t, outcome)

\* a step of the background thread t
LoopStep(t) ==
    \/ LoopCheck(t)
    \/ LoopPut(t)
    \/ LoopSleep(t)
    \/ CameraStep(t)

\* the caller uses the camera itself, and may run one background thread
NextCapture ==
    \/ CallInitializeCamera
    \/ CallCaptureSingleImage
    \/ CameraStep("main")
    \/ StartContinuousCapture("t1")
    \/ StopContinuousCapture("stop")
    \/ JoinReturns
    \/ GetLatestCapture
    \/ LoopStep("t1")

\* the caller starts, stops and releases; the background threads capture
NextCamera ==
    \/ \E t \in LoopThreads : StartContinuousCapture(t)
    \/ StopContinuousCapture("stop")
    \/ StopContinuousCapture("release")
    \/ JoinReturns
    \/ ReleaseCap
    \/ GetLatestCapture
    \/ \E t \in LoopThreads : LoopStep(t)

\* a camera next to an engine that is constructed and not called
InitCamera ==
    /\ config = DefaultConfig
    /\ store = MissingStore
    /\ history = [e \in Engines |-> LoadHistory(<<>>, store)]
    /\ alive = [e \in Engines |-> TRUE]
    /\ result = Outcome("init", "e1", NoArgs, "", "none", None, <<>>)
    /\ clock = 0
    /\ failed = [e \in Engines |-> {}]
    /\ system = IdleSystem
    /\ camera = IdleCamera

SpecCamera == InitCamera /\ [][NextCamera]_vars

\* the threads are scheduled fairly: a thread that can take a step takes
\* one, a sleep ends, a join returns; the caller need not call anything
SpecCapture ==
    /\ InitCamera /\ [][NextCapture]_vars
    /\ WF_vars(LoopStep("t1"))
    /\ WF_vars(CameraStep("main"))
    /\ WF_vars(JoinReturns)

----------------------------------------------------------------------------
(* TrafficManagementSystem.run_continuous: the loop around run_single_cycle *)

\* cycles one run_continuous may start in the model
MaxCycles == 4

\* max_cycles arguments: None, and integers around zero
MaxCyclesInputs == {None, Some(-1), Some(0), Some(1), Some(2)}

\* get_vehicle_statistics: a total and a count for every vehicle class
DetectedStats ==
    { [total |-> 0, car |-> 0, motorcycle |-> 0, bus |-> 0, truck |-> 0],
      [total |-> 3, car |-> 2, motorcycle |-> 0, bus |-> 1, truck |-> 0] }

\* what happens inside one run_single_cycle: the camera cannot be opened,
\* no frame is captured, the detection raises, or the cycle completes
CycleOutcomes == {"camera_fails", "capture_fails", "detect_fails", "ok"}

\* max_cycles and cycle_count >= max_cycles (line 214)
ReachedMaximum(s) ==
    /\ s.max_cycles # None
    /\ s.max_cycles[1] # 0
    /\ s.cycle_count >= s.max_cycles[1]

\* max_cycles is None or cycle_count < max_cycles (line 227)
WaitsForNext(s) ==
    \/ s.max_cycles = None
    \/ s.cycle_count < s.max_cycles[1]

\* the caller invokes run_continuous(interval, max_cycles)
RunContinuous(m) ==
    /\ system.pc = "idle"
    /\ system' = [system EXCEPT !.pc = "check", !.max_cycles = m,
                                !.cycle_count = 0]
    /\ UNCHANGED <<EngineVars, camera>>

\* the head of the while loop (lines 213-216)
CheckMaximum ==
    /\ system.pc = "check"
    /\ system' = [system EXCEPT !.pc =
                     IF ReachedMaximum(system) THEN "done" ELSE "cycle"]
    /\ UNCHANGED <<EngineVars, camera>>

\* the counter after result has been looked at (lines 221-224), and where
\* the loop goes next (line 227)
AfterCycle(s, succeeded) ==
    LET d == [s EXCEPT !.started = @ + 1,
                       !.cycle_count = IF succeeded THEN @ + 1 ELSE @,
                       !.last = IF succeeded THEN "record" ELSE "failed"]
    IN [d EXCEPT !.pc = IF WaitsForNext(d) THEN "sleep" ELSE "check"]

\* run_single_cycle (lines 111-195) inside the loop (lines 219-229): capture
\* an image, detect the vehicles, compute and persist the timing
RunSingleCycle(stats, outcome) ==
    /\ system.pc = "cycle"
    /\ system.started < MaxCycles
    /\ outcome = "camera_fails" => camera.cap = "none"
    /\ camera' = [camera EXCEPT !.cap =
                     IF outcome = "camera_fails" THEN "none" ELSE "open"]
    /\ IF outcome = "ok"
       THEN CallReturns("e1", Args(None, Some(stats), system.algorithm), "ok")
       ELSE UNCHANGED EngineVars
    /\ system' = AfterCycle(system, outcome = "ok")

\* time.sleep(interval) (line 229)
WaitForNextCycle ==
    /\ system.pc = "sleep"
    /\ system' = [system EXCEPT !.pc = "check", !.sleeps = @ + 1]
    /\ UNCHANGED <<EngineVars, camera>>

\* Ctrl+C inside the loop (lines 231-232)
KeyboardInterrupt ==
    /\ system.pc \in {"check", "cycle", "sleep"}
    /\ system' = [system EXCEPT !.pc = "done", !.last = "interrupted"]
    /\ UNCHANGED <<EngineVars, camera>>

\* a system after initialize: the camera is open, the engine has loaded
InitSystem ==
    /\ config = DefaultConfig
    /\ store \in {MissingStore, JsonStore(OldRun(2))}
    /\ history = [e \in Engines |-> LoadHistory(<<>>, store)]
    /\ alive = [e \in Engines |-> TRUE]
    /\ result = Outcome("init", "e1", NoArgs, "", "none", None, <<>>)
    /\ clock = 0
    /\ failed = [e \in Engines |-> {}]
    /\ system \in {[IdleSystem EXCEPT !.algorithm = a] : a \in AlgorithmNames}
    /\ camera = [IdleCamera EXCEPT !.cap = "open"]

NextSystem ==
    \/ \E m \in MaxCyclesInputs : RunContinuous(m)
    \/ CheckMaximum
    \/ \E stats \in DetectedStats, outcome \in CycleOutcomes :
          RunSingleCycle(stats, outcome)
    \/ WaitForNextCycle
    \/ KeyboardInterrupt

SpecSystem == InitSystem /\ [][NextSystem]_vars

----------------------------------------------------------------------------
(* Properties *)

\* weighted counts (half units) the pure algorithms are tried on: zero and
\* small counts, the counts around 0.5 and 1.5 times the mean of the stored
\* runs (20 and 60, 14.5 and 43.5), the counts where the linear time reaches
\* the maximum (34 and 90), and the largest count of Log15Table
WeightedCounts ==
    { 0, 1, 2, 14, 15, 19, 20, 21, 33, 34, 43, 44, 59, 60, 61, 80, 89, 90,
      91, 204 }

\* the precondition on a configuration
ConfigInvariant(c) ==
    /\ c.min_green_time <= c.base_green_time
    /\ c.base_green_time <= c.max_green_time

InRange(c, g) == c.min_green_time <= g /\ g <= c.max_green_time

IsPrefix(s, t) == Len(s) <= Len(t) /\ SubSeq(t, 1, Len(s)) = s

\* C1: with min_green_time <= base_green_time <= max_green_time, each of the
\* three algorithms returns a green time within [min_green_time,
\* max_green_time] for every non-negative weighted count and every history,
\* and so does every record calculate_signal_timing returns.
C1_GreenTimeInRange ==
    ConfigInvariant(config) =>
        /\ \A w2 \in WeightedCounts :
              /\ InRange(config, LinearAlgorithm(config, w2))
              /\ InRange(config, LogarithmicAlgorithm(config, w2))
              /\ \A e \in Engines :
                    InRange(config, AdaptiveAlgorithm(config, history[e], w2))
        /\ result.kind = "record" =>
              InRange(config, result.record[1].green_time)

\* C1 witness: an adaptive call whose scaled time (1.2 * 110 = 132) was cut
\* to the maximum
C1_Witness ==
    /\ result.kind = "record"
    /\ result.args.algorithm = "adaptive"
    /\ Len(history[result.engine]) > 10
    /\ result.record[1].green_time = config.max_green_time
    /\ Trunc(12 * LinearAlgorithm(config, result.record[1].weighted_vehicle_count), 10)
          > config.max_green_time

\* C2: a call of calculate_signal_timing that returns appends exactly the
\* returned record at the end of the history and leaves the earlier records
\* as they were; no step of a running engine other than that changes its
\* history (a construction makes a new engine, a crash ends one).
C2_AppendOnly ==
    [][\A e \in Engines :
          \/ history'[e] = history[e]
          \/ result'.op \in {"construct", "crash", "crash_in_save"}
                /\ result'.engine = e
          \/ /\ result'.op = "calculate" /\ result'.engine = e
             /\ result'.kind = "record"
             /\ Len(history'[e]) = Len(history[e]) + 1
             /\ SubSeq(history'[e], 1, Len(history[e])) = history[e]
             /\ Last(history'[e]) = result'.record[1]]_vars

\* C2 witness: two calls with the same arguments have grown a history of 20
\* records to 22, the two new records differing in the timestamp alone
C2_Witness ==
    LET h == history["e1"] IN
    /\ result.kind = "record"
    /\ Len(h) = 22
    /\ h[21].timestamp = 1 /\ h[22].timestamp = 2
    /\ [h[22] EXCEPT !.timestamp = 1] = h[21]

\* C3: a call with an algorithm name outside {linear, logarithmic, adaptive}
\* fails with an error naming that algorithm and leaves the history and the
\* backing file exactly as they were; no default algorithm is run.
C3_UnknownAlgorithmNoEffect ==
    [][(/\ result'.op = "calculate"
        /\ clock' = clock + 1
        /\ result'.args.algorithm \notin {"linear", "logarithmic", "adaptive"})
       => /\ result'.kind = "error"
          /\ result'.error = <<"Unknown algorithm: ", result'.args.algorithm>>
          /\ result'.record = <<>>
          /\ history' = history
          /\ store' = store]_vars

\* C3 witness: the call failed on an engine that holds records and has a
\* backing file with records
C3_Witness ==
    /\ result.op = "calculate" /\ result.kind = "error"
    /\ result.args.algorithm = "fastest"
    /\ history[result.engine] # <<>>
    /\ store.kind = "json" /\ store.items # <<>>

\* a negative count in the arguments of a call
NegativeInput(a) ==
    \/ a.vehicle_count # None /\ a.vehicle_count[1] < 0
    \/ a.vehicle_stats # None /\
          \E k \in DOMAIN a.vehicle_stats[1] : a.vehicle_stats[1][k] < 0

\* C4: a call with a negative vehicle count (as vehicle_count or inside
\* vehicle_stats) is rejected with an error before an algorithm runs, and no
\* record with a negative vehicle_count or weighted_vehicle_count is ever in
\* the history.
C4_NegativeCountRejected ==
    /\ (result.op = "calculate" /\ NegativeInput(result.args))
          => result.kind = "error"
    /\ \A e \in Engines : \A i \in 1..Len(history[e]) :
          /\ history[e][i].vehicle_count >= 0
          /\ history[e][i].weighted_vehicle_count >= 0

\* C5: a crash of the process, between two calls or inside the persist step,
\* leaves in the backing file every record a construction would have loaded
\* before the crash: the next construction loads at least those.
C5_CrashKeepsCommitted ==
    [][\A e \in Engines :
          (alive[e] /\ ~alive'[e])
             => IsPrefix(LoadHistory(<<>>, store), LoadHistory(<<>>, store'))]_vars

\* the engines the last step constructed
Constructed ==
    IF result.op = "init" THEN Engines
    ELSE IF result.op = "construct" THEN {result.engine} ELSE {}

\* C6: a construction always yields a running engine; its history is empty
\* if the backing file is missing, does not parse, or holds an item whose
\* keys are not exactly the fields of SignalTiming (no prefix of the items
\* is kept), and otherwise it is the stored sequence, in stored order.
C6_LoadAllOrNothing ==
    \A e \in Constructed :
        /\ alive[e]
        /\ IF /\ store.kind = "json"
              /\ \A i \in 1..Len(store.items) : DOMAIN store.items[i] = FieldNames
           THEN /\ Len(history[e]) = Len(store.items)
                /\ \A i \in 1..Len(store.items) :
                      history[e][i] = DecodeTiming(store.items[i])
           ELSE history[e] = <<>>

\* C6 witness: an engine constructed over a file whose first item loads and
\* whose second item lacks a field
C6_Witness ==
    /\ result.op = "construct"
    /\ store.kind = "json" /\ Len(store.items) = 2
    /\ DOMAIN store.items[1] = FieldNames
    /\ DOMAIN store.items[2] # FieldNames
    /\ history[result.engine] = <<>>

\* C7: when the persist step fails the call still returns the new record,
\* which is the last element of the in-memory history; and when a later
\* persist succeeds, the file holds every record whose persist had failed,
\* at its place in the history.
C7_PersistFailureKeepsRecord ==
    LET e == result.engine
        h == history[e]
    IN /\ (result.op = "calculate" /\ result.args.algorithm \in AlgorithmNames)
             => result.kind = "record"
       /\ (result.op = "calculate" /\ result.kind = "record" /\ result.io # "ok")
             => /\ h # <<>>
                /\ Last(h) = result.record[1]
                /\ Len(h) \in failed[e]
       /\ (result.op = "calculate" /\ result.kind = "record" /\ result.io = "ok")
             => /\ store.kind = "json"
                /\ \A i \in failed[e] :
                      /\ i <= Len(store.items)
                      /\ DOMAIN store.items[i] = FieldNames
                      /\ DecodeTiming(store.items[i]) = h[i]

\* C7 witness: a persist has succeeded after the persist of an earlier
\* record of the same engine had failed
C7_Witness ==
    /\ result.op = "calculate" /\ result.kind = "record" /\ result.io = "ok"
    /\ failed[result.engine] # {}
    /\ Len(history[result.engine]) > 2

\* C8: saving a history and loading it again gives a history of the same
\* length with the same records, field for field, in the same order.
C8_RoundTrip ==
    \A e \in Engines :
        alive[e] =>
            LoadHistory(<<>>, SaveHistory(store, history[e], "ok")) = history[e]

\* C8 witness: a history with a fractional and with a negative weighted count
C8_Witness ==
    \E e \in Engines :
        /\ alive[e]
        /\ \E i \in 1..Len(history[e]) :
              history[e][i].weighted_vehicle_count % 2 = 1
        /\ \E i \in 1..Len(history[e]) :
              history[e][i].weighted_vehicle_count < 0

\* C9: right after a call has returned with its persist done, the backing
\* file holds exactly the in-memory history, record for record and in order,
\* and persisting that history again leaves the file as it is.
C9_StoreMirrorsHistory ==
    (result.op = "calculate" /\ result.kind = "record" /\ result.io = "ok") =>
        LET h == history[result.engine]
        IN /\ store.kind = "json"
           /\ Len(store.items) = Len(h)
           /\ \A i \in 1..Len(h) :
                 /\ DOMAIN store.items[i] = FieldNames
                 /\ DecodeTiming(store.items[i]) = h[i]
           /\ SaveHistory(store, h, "ok") = store

\* C9 witness: 20 records loaded at construction and two appended since,
\* all 22 in the file
C9_Witness ==
    /\ result.op = "calculate" /\ result.kind = "record" /\ result.io = "ok"
    /\ Len(history[result.engine]) = 22
    /\ Len(store.items) = 22
    /\ failed[result.engine] = {}

\* weighted counts of either sign
AnyCounts == WeightedCounts \cup ((-4)..(-1))

\* C10: while the history holds fewer than 10 records, adaptive_algorithm
\* returns what linear_algorithm returns, for every weighted count and
\* whatever the records hold; so an adaptive call made on fewer than 10
\* records returns the linear green time.
C10_AdaptiveIsLinearBelowTen ==
    /\ \A e \in Engines, w2 \in AnyCounts :
          Len(history[e]) < 10 =>
              AdaptiveAlgorithm(config, history[e], w2) = LinearAlgorithm(config, w2)
    /\ (/\ result.kind = "record" /\ result.args.algorithm = "adaptive"
        /\ Len(history[result.engine]) <= 10)
          => result.record[1].green_time =
                LinearAlgorithm(config, result.record[1].weighted_vehicle_count)

\* C10 witness: an adaptive call made on 9 records with a count above 1.5
\* times their mean, for which the scaled time differs from the linear one
C10_Witness ==
    LET h  == history[result.engine]
        w2 == result.record[1].weighted_vehicle_count
    IN /\ result.kind = "record" /\ result.args.algorithm = "adaptive"
       /\ Len(h) = 10
       /\ 2 * 9 * w2 > 3 * WeightedSum(SubSeq(h, 1, 9))
       /\ ClampTime(config, Trunc(12 * LinearAlgorithm(config, w2), 10))
             # LinearAlgorithm(config, w2)

\* the sum of the weighted counts of the records of h from index i on
RECURSIVE SumFrom(_, _)
SumFrom(h, i) ==
    IF i > Len(h) THEN 0 ELSE h[i].weighted_vehicle_count + SumFrom(h, i + 1)

\* the green time the adaptive rule prescribes on a history h of 10 or more
\* records: the mean m = S2 / (2n) of the last n = min(20, Len(h)) records
ScaledByMean(c, h, w2) ==
    LET n  == Min2(20, Len(h))
        S2 == SumFrom(h, Len(h) - n + 1)
        L  == LinearAlgorithm(c, w2)
    IN IF 2 * n * w2 > 3 * S2 THEN ClampTime(c, Trunc(12 * L, 10))
       ELSE IF 2 * n * w2 < S2 THEN ClampTime(c, Trunc(8 * L, 10))
       ELSE L

\* C11: on a history of n >= 10 records adaptive_algorithm(w) takes the mean
\* m of the weighted counts of exactly the last min(20, n) records, whatever
\* algorithm made them, and returns clamp(trunc(1.2 * L)) if w > 1.5 * m,
\* clamp(trunc(0.8 * L)) if w < 0.5 * m and L = linear_algorithm(w)
\* otherwise; an adaptive call returns that time for the history it was made
\* on and leaves the records of that history as they were.
C11_AdaptiveUsesLastTwenty ==
    [][/\ \A e \in Engines, w2 \in AnyCounts :
             Len(history'[e]) >= 10 =>
                 AdaptiveAlgorithm(config', history'[e], w2)
                     = ScaledByMean(config', history'[e], w2)
       /\ (/\ result'.op = "calculate" /\ result'.kind = "record"
           /\ clock' = clock + 1
           /\ result'.args.algorithm = "adaptive"
           /\ Len(history[result'.engine]) >= 10)
             => LET h == history[result'.engine] IN
                /\ result'.record[1].green_time =
                      ScaledByMean(config, h,
                                   result'.record[1].weighted_vehicle_count)
                /\ SubSeq(history'[result'.engine], 1, Len(h)) = h]_vars

\* C11 witness: an adaptive call made on 21 records, the oldest of which has
\* a count so large that a mean over all 21 would have scaled the time down
\* while the mean over the last 20 leaves it as it is
C11_Witness ==
    LET h   == history[result.engine]
        pre == SubSeq(h, 1, Len(h) - 1)
        w2  == result.record[1].weighted_vehicle_count
    IN /\ result.op = "calculate" /\ result.kind = "record"
       /\ result.args.algorithm = "adaptive"
       /\ Len(h) = 22
       /\ 2 * 21 * w2 < SumFrom(pre, 1)
       /\ ~(2 * 20 * w2 < SumFrom(pre, 2))
       /\ result.record[1].green_time = LinearAlgorithm(config, w2)
       /\ Trunc(8 * LinearAlgorithm(config, w2), 10) # LinearAlgorithm(config, w2)

\* the argument and the value of a direct call of the method op
CalledWith == result.args.vehicle_count[1]
Value == result.record[1]

\* C12: with min_green_time <= base_green_time <= max_green_time and a
\* non-negative vehicle_multiplier, linear_algorithm(0) is base_green_time and
\* linear_algorithm(x) <= linear_algorithm(y) whenever 0 <= x <= y.
C12_LinearMonotone ==
    (/\ ConfigInvariant(config) /\ config.vehicle_multiplier >= 0
     /\ result.op = "linear_algorithm" /\ CalledWith >= 0)
       => /\ CalledWith = 0 => Value = config.base_green_time
          /\ \A x2 \in DirectCounts :
                /\ (0 <= x2 /\ x2 <= CalledWith)
                      => LinearAlgorithm(config, x2) <= Value
                /\ CalledWith <= x2 => Value <= LinearAlgorithm(config, x2)

\* C12 witness: linear_algorithm(10) has returned a time above the base time
\* and below the maximum, as test_linear_algorithm expects
C12_Witness ==
    /\ result.op = "linear_algorithm" /\ CalledWith = 20
    /\ Value > config.base_green_time
    /\ Value < config.max_green_time
    /\ LinearAlgorithm(config, 0) = config.base_green_time

\* C13: logarithmic_algorithm(w) is exactly min_green_time for every w <= 0,
\* whatever base_green_time is; so a call of calculate_signal_timing with
\* algorithm "logarithmic" and a non-empty vehicle_stats of weighted sum 0
\* (such as {car: 0}) returns a record with green_time = min_green_time.
C13_LogarithmicFloorAtZero ==
    /\ \A w2 \in (-4)..0 :
          LogarithmicAlgorithm(config, w2) = config.min_green_time
    /\ (/\ result.op = "calculate" /\ result.kind = "record"
        /\ result.args.algorithm = "logarithmic"
        /\ result.record[1].weighted_vehicle_count <= 0)
          => result.record[1].green_time = config.min_green_time

\* C13 witness: the call with vehicle_stats {car: 0} (and a vehicle_count of
\* 3 that the mapping overrides) returned the minimum of a configuration
\* whose base time is above its minimum
C13_Witness ==
    /\ result.op = "calculate" /\ result.kind = "record"
    /\ result.args = Args(Some(3), Some([car |-> 0]), "logarithmic")
    /\ result.record[1].weighted_vehicle_count = 0
    /\ result.record[1].green_time = config.min_green_time
    /\ config.min_green_time < config.base_green_time

\* logarithmic(x + 1) - logarithmic(x) for x = x2/2
Increment(c, x2) == LogarithmicAlgorithm(c, x2 + 2) - LogarithmicAlgorithm(c, x2)

\* the increment at the count of a direct call of logarithmic_algorithm
IncrementAtCall == LogarithmicAlgorithm(config, CalledWith + 2) - Value

C15_TenStrictlyBetween ==
    (/\ ConfigInvariant(config)
     /\ result.op = "logarithmic_algorithm" /\ CalledWith = 20)
       => /\ Value > config.min_green_time
          /\ Value < LogarithmicAlgorithm(config, 200)

\* C15 (amended): for every such configuration min_green_time <=
\* logarithmic_algorithm(10) <= logarithmic_algorithm(100), and both
\* inequalities are strict when logarithmic_algorithm(10) is below
\* max_green_time, that is, when the clamp has not cut it.
C15_TenBetweenUnlessClamped ==
    (/\ ConfigInvariant(config)
     /\ result.op = "logarithmic_algorithm" /\ CalledWith = 20)
       => /\ config.min_green_time <= Value
          /\ Value <= LogarithmicAlgorithm(config, 200)
          /\ Value < config.max_green_time
                => /\ Value > config.min_green_time
                   /\ Value < LogarithmicAlgorithm(config, 200)

\* C15 witness: logarithmic_algorithm(10) has returned a time below the
\* maximum (65 of 120 by default), strictly between the minimum and the time
\* for 100 vehicles (99)
C15_Witness ==
    /\ result.op = "logarithmic_algorithm" /\ CalledWith = 20
    /\ Value < config.max_green_time
    /\ Value > config.min_green_time
    /\ LogarithmicAlgorithm(config, 200) > Value
    /\ LogarithmicAlgorithm(config, 200) < config.max_green_time

\* the count of type k in a mapping, 0 when the key is absent
CountOf(stats, k) == IF k \in DOMAIN stats THEN stats[k] ELSE 0

\* C16: calculate_weighted_vehicles(stats) returns (it never raises) the sum
\* of count * weight over exactly the keys car, motorcycle, bus and truck
\* present in stats; "total" and every unknown key contribute 0, the empty
\* mapping gives 0.0, and with the default weights {car: 5, bus: 2,
\* motorcycle: 3} gives 10.5, above the raw sum 10.
C16_WeightedSumOfKnownTypes ==
    result.op = "calculate_weighted_vehicles" =>
        LET stats == result.args.vehicle_stats[1] IN
        /\ result.kind = "value"
        /\ Value = CountOf(stats, "car") * config.car_weight
                     + CountOf(stats, "motorcycle") * config.motorcycle_weight
                     + CountOf(stats, "bus") * config.bus_weight
                     + CountOf(stats, "truck") * config.truck_weight
        /\ DOMAIN stats = {} => Value = 0
        /\ (/\ stats = [car |-> 5, bus |-> 2, motorcycle |-> 3]
            /\ Weights(config) = Weights(DefaultConfig))
              => Value = 21 /\ Value > 2 * SumValues(stats)

\* C16 witness: a mapping with a known type, an unknown type and no total
\* returned the weight of the known type alone (2 cars, 3 bicycles: 2.0)
C16_Witness ==
    /\ result.op = "calculate_weighted_vehicles"
    /\ result.args.vehicle_stats[1] = [car |-> 2, bicycle |-> 3]
    /\ Value = 4
    /\ Value < 2 * SumValues(result.args.vehicle_stats[1])

\* C17: whenever a vehicle_stats mapping is supplied to
\* calculate_signal_timing (an empty one included, and also when
\* vehicle_count is supplied with it), the record's weighted_vehicle_count
\* is calculate_weighted_vehicles(vehicle_stats) and its vehicle_count is
\* vehicle_stats["total"] if that key is present, else the sum of the values
\* of the mapping; the vehicle_count argument is used only when no mapping
\* is supplied, and then the weighted value equals the raw count.
C17_MappingDecidesCounts ==
    (result.op = "calculate" /\ result.kind = "record") =>
        LET a == result.args
            r == result.record[1]
        IN IF a.vehicle_stats # None
           THEN /\ r.weighted_vehicle_count =
                      CalculateWeightedVehicles(config, a.vehicle_stats[1])
                /\ r.vehicle_count =
                      IF "total" \in DOMAIN a.vehicle_stats[1]
                      THEN a.vehicle_stats[1]["total"]
                      ELSE SumValues(a.vehicle_stats[1])
           ELSE /\ r.vehicle_count =
                      IF a.vehicle_count = None THEN 0 ELSE a.vehicle_count[1]
                /\ r.weighted_vehicle_count = 2 * r.vehicle_count

\* C18: every record calculate_signal_timing returns has total_cycle_time =
\* green_time + yellow_time + all_red_time, with yellow_time and all_red_time
\* the values of the configuration at the call and algorithm the requested
\* name; with non-negative yellow and all-red times and min_green_time > 0
\* the total_cycle_time is positive.
C18_CycleIsSumOfPhases ==
    (result.op = "calculate" /\ result.kind = "record") =>
        LET r == result.record[1] IN
        /\ r.total_cycle_time = r.green_time + r.yellow_time + r.all_red_time
        /\ r.yellow_time = config.yellow_time
        /\ r.all_red_time = config.all_red_time
        /\ r.algorithm = result.args.algorithm
        /\ (/\ config.yellow_time >= 0 /\ config.all_red_time >= 0
            /\ config.min_green_time > 0)
              => r.total_cycle_time > 0

\* C18 witness: a record made under the default configuration (yellow 3,
\* all-red 2) on a history whose last stored record has a different cycle
\* (an edited record of 500 s green)
C18_Witness ==
    LET h == history[result.engine] IN
    /\ result.op = "calculate" /\ result.kind = "record"
    /\ config.all_red_time > 0
    /\ Len(h) >= 2
    /\ h[Len(h) - 1].green_time = 500
    /\ result.record[1].total_cycle_time = result.record[1].green_time + 5

\* the conditions of the data model on a record, for the configuration c
ValidRecord(c, r) ==
    /\ InRange(c, r.green_time)
    /\ r.total_cycle_time = r.green_time + r.yellow_time + r.all_red_time
    /\ r.algorithm \in {"linear", "logarithmic", "adaptive"}

\* C19 (as claimed): in every reachable state of an engine, also right after
\* a construction over a backing file written by an earlier run or pruned or
\* edited by external tooling, every record of the history has green_time
\* within [min_green_time, max_green_time] of the engine's configuration,
\* total_cycle_time = green_time + yellow_time + all_red_time and algorithm
\* in {linear, logarithmic, adaptive}.
C19_EveryRecordValid ==
    \A e \in Engines : \A i \in 1..Len(history[e]) :
        ValidRecord(config, history[e][i])

\* C19 (amended): with min_green_time <= base_green_time <= max_green_time,
\* every record a call of calculate_signal_timing appends to the history
\* satisfies the three conditions for the engine's configuration; the
\* records a construction loads are taken as stored.
C19_AppendedRecordsValid ==
    [][(ConfigInvariant(config) /\ result'.op = "calculate") =>
          \A e \in Engines :
              \A i \in (Len(history[e]) + 1)..Len(history'[e]) :
                  ValidRecord(config', history'[e][i])]_vars

\* C19 witness: a call has appended a record that meets the conditions to a
\* loaded history whose first record does not (its green time is above the
\* maximum of this engine's configuration)
C19_Witness ==
    LET h == history[result.engine] IN
    /\ result.op = "calculate" /\ result.kind = "record"
    /\ Len(h) >= 2
    /\ h[1].green_time > config.max_green_time
    /\ h[1].algorithm \in {"linear", "logarithmic", "adaptive"}
    /\ Last(h) = result.record[1]
    /\ ValidRecord(config, Last(h))

\* the mapping of the end-to-end scenario
ScenarioStats == [car |-> 5, bus |-> 2, motorcycle |-> 3, total |-> 10]

\* C20: calculate_signal_timing with algorithm "linear" produces green_time
\* = clamp(trunc(base_green_time + weighted_count * vehicle_multiplier)); on
\* a fresh engine with the default configuration and vehicle_stats {car: 5,
\* bus: 2, motorcycle: 3, total: 10} the record has weighted_vehicle_count
\* 10.5, green_time 51, total_cycle_time 56 and vehicle_count 10.
C20_LinearEndToEnd ==
    (/\ result.op = "calculate" /\ result.kind = "record"
     /\ result.args.algorithm = "linear")
       => LET r == result.record[1] IN
          /\ r.green_time =
                Max2(config.min_green_time,
                     Min2(config.max_green_time,
                          Trunc(4 * config.base_green_time
                                + r.weighted_vehicle_count
                                  * config.vehicle_multiplier, 4)))
          /\ (/\ config = DefaultConfig
              /\ result.args = Args(None, Some(ScenarioStats), "linear"))
                => /\ r.weighted_vehicle_count = 21
                   /\ r.green_time = 51
                   /\ r.total_cycle_time = 56
                   /\ r.vehicle_count = 10

\* C20 witness: the scenario's call is the first call of an engine with the
\* default configuration and no stored history
C20_Witness ==
    /\ result.op = "calculate" /\ result.kind = "record"
    /\ config = DefaultConfig
    /\ result.args = Args(None, Some(ScenarioStats), "linear")
    /\ Len(history[result.engine]) = 1
    /\ history[result.engine][1].green_time = 51

\* C21: get_statistics on an engine whose history is empty returns the
\* no-data indicator (it neither raises nor divides by zero); on a non-empty
\* history it returns the numeric summary, whose means are over at least one
\* record; and it changes neither the history nor the backing file.
C21_StatisticsTotalAndPure ==
    [][result'.op = "get_statistics" =>
          LET h == history[result'.engine] IN
          /\ h = <<>> =>
                /\ result'.kind = "message"
                /\ result'.record = <<[message |-> "No historical data available"]>>
          /\ h # <<>> =>
                /\ result'.kind = "statistics"
                /\ result'.record[1].avg_green_time.n >= 1
                /\ result'.record[1].avg_vehicle_count.n >= 1
                /\ result'.record[1].total_cycles = Len(h)
          /\ history' = history
          /\ store' = store]_vars

\* C21 witness: the no-data indicator was returned by an engine whose
\* backing file holds items, none of which it loaded
C21_Witness ==
    /\ result.op = "get_statistics" /\ result.kind = "message"
    /\ history[result.engine] = <<>>
    /\ store.kind = "json" /\ store.items # <<>>

\* the sum of f[lo], ..., f[hi]
RECURSIVE SumOver(_, _, _)
SumOver(f, lo, hi) == IF lo > hi THEN 0 ELSE f[lo] + SumOver(f, lo + 1, hi)

\* C22: on a history of n >= 1 records get_statistics aggregates over
\* exactly the last min(50, n) records: it reports min(50, n) records
\* considered; the mean, minimum and maximum of green_time and the mean of
\* vehicle_count are those of these records alone; and the time above
\* baseline is the sum of green_time - base_green_time over the considered
\* records where it is positive, so it is never negative.
C22_StatisticsOverLastFifty ==
    (result.op = "get_statistics" /\ history[result.engine] # <<>>) =>
        LET h      == history[result.engine]
            n      == Min2(50, Len(h))
            lo     == Len(h) - n + 1
            window == lo..Len(h)
            green  == [i \in 1..Len(h) |-> h[i].green_time]
            count  == [i \in 1..Len(h) |-> h[i].vehicle_count]
            above  == [i \in 1..Len(h) |->
                          Max2(0, h[i].green_time - config.base_green_time)]
            s      == result.record[1]
        IN /\ result.kind = "statistics"
           /\ s.recent_cycles = n
           /\ s.avg_green_time = [total |-> SumOver(green, lo, Len(h)), n |-> n]
           /\ s.avg_vehicle_count = [total |-> SumOver(count, lo, Len(h)), n |-> n]
           /\ \E i \in window : green[i] = s.max_green_time
           /\ \A i \in window : green[i] <= s.max_green_time
           /\ \E i \in window : green[i] = s.min_green_time
           /\ \A i \in window : green[i] >= s.min_green_time
           /\ s.total_wait_time_saved = SumOver(above, lo, Len(h))
           /\ s.total_wait_time_saved >= 0

\* C22 witness: a summary of a history of 52 or more records whose oldest
\* record has a green time above the reported maximum, and whose last 50
\* hold a record below the base time
C22_Witness ==
    LET h == history[result.engine] IN
    /\ result.op = "get_statistics" /\ result.kind = "statistics"
    /\ Len(h) >= 52
    /\ result.record[1].recent_cycles = 50
    /\ h[1].green_time > result.record[1].max_green_time
    /\ result.record[1].min_green_time < config.base_green_time

\* a record without its timestamp
Timeless(r) == [r EXCEPT !.timestamp = 0]

\* the history the engine of the last call had when that call was made
HistoryAtLastCall ==
    SubSeq(history[result.engine], 1, Len(history[result.engine]) - 1)

\* C23: calculate_signal_timing is deterministic in its numeric result.  When
\* a call follows a call with the same vehicle_count, vehicle_stats and
\* algorithm: if it is made on another engine, with the same configuration,
\* whose history equals the history the first call was made on, the two
\* records agree in every field but the timestamp; if it is made on the same
\* engine, the records can differ only where the result depends on the
\* history the first call has changed (the adaptive algorithm on 10 or more
\* records).
C23_DeterministicResult ==
    [][(/\ result.op = "calculate" /\ result.kind = "record"
        /\ result'.op = "calculate" /\ result'.kind = "record"
        /\ clock' = clock + 1
        /\ result'.args = result.args)
       => /\ (/\ result'.engine # result.engine
              /\ history[result'.engine] = HistoryAtLastCall)
                => Timeless(result'.record[1]) = Timeless(result.record[1])
          /\ (/\ result'.engine = result.engine
              /\ \/ result.args.algorithm # "adaptive"
                 \/ Len(history[result.engine]) < 10)
                => Timeless(result'.record[1]) = Timeless(result.record[1])]_vars

\* C23 witness: the second engine has repeated an adaptive call of the first
\* on an equal history of 20 records and returned the same scaled record
C23_Witness ==
    LET h1 == history["e1"]
        h2 == history["e2"]
    IN /\ result.op = "calculate" /\ result.kind = "record"
       /\ result.engine = "e2"
       /\ result.args.algorithm = "adaptive"
       /\ Len(h1) = 21 /\ Len(h2) = 21
       /\ SubSeq(h1, 1, 20) = SubSeq(h2, 1, 20)
       /\ h1[21].timestamp = 1 /\ h2[21].timestamp = 2
       /\ Timeless(h1[21]) = Timeless(h2[21])
       /\ h2[21].green_time
             # LinearAlgorithm(config, h2[21].weighted_vehicle_count)

\* C24: run_continuous with a max_cycles other than None, zero included,
\* starts no cycle once max_cycles cycles have succeeded and then returns,
\* does not count a cycle that fails, and does not wait after the last
\* counted cycle
C24_StopsAtMaxCycles ==
    [][ LET bounded == system'.max_cycles # None
            reached == system'.cycle_count >= system'.max_cycles[1]
        IN /\ (bounded /\ reached) => system'.pc \notin {"cycle", "sleep"}
           /\ (system.pc = "check" /\ bounded /\ reached /\ system' # system)
                 => system'.pc = "done"
           /\ (system.pc = "cycle" /\ system'.last = "failed")
                 => system'.cycle_count = system.cycle_count ]_vars

\* no background capture loop is running
Quiet == \A t \in LoopThreads : Pc(t) \in {"none", "exited"}

\* initialize_camera has returned value to the caller
Initialized(c, value) ==
    /\ c.thread["main"].pc = "idle"
    /\ c.returned = [op |-> "initialize_camera", value |-> value]

\* C25: initialize_camera terminates after at most 3 open attempts: it
\* returns True at the first attempt that opens the device and reads a
\* frame, False only after 3 failed attempts in a row and then with the
\* handle None, every failed attempt having released its handle; it waits
\* between attempts and not after the last one
C25_InitializeCameraBounded ==
    /\ [](\A t \in Threads :
            LET l == camera.thread[t]
            IN /\ l.pc = "init" =>
                     l.attempt \in 0..(MaxRetries - 1) /\ l.waits = l.attempt
               /\ l.pc = "init_sleep" =>
                     l.attempt \in 1..(MaxRetries - 1) /\ l.waits = l.attempt - 1)
    /\ [][ LET l == camera.thread["main"]
           IN (/\ l.pc = "init" /\ l.from = "caller"
               /\ camera'.thread["main"] # l
               /\ Quiet)
              => \/ /\ Initialized(camera', "true")
                    /\ camera'.cap = "open"
                 \/ /\ Initialized(camera', "false")
                    /\ l.attempt = MaxRetries - 1
                    /\ camera'.cap = "none"
                 \/ /\ camera'.thread["main"] =
                          Local("init_sleep", l.attempt + 1, l.waits, "caller")
                    /\ camera'.cap = "none" ]_vars
    /\ \A t \in {"main", "t1"} :
          (Pc(t) \in {"init", "init_sleep"}) ~> (Pc(t) \notin {"init", "init_sleep"})

\* initialize_camera has given up after the third failed attempt
C25_Witness ==
    /\ Initialized(camera, "false")
    /\ camera.cap = "none"
    /\ Quiet

\* the background threads that have been started and have not left capture_loop
ActiveLoops == {t \in LoopThreads : Pc(t) \notin {"none", "exited"}}

\* C26: at most one background capture loop of a CameraCapture is active at
\* any time, whatever the order of the start_continuous_capture and
\* stop_continuous_capture calls and whether or not the join times out
C26_AtMostOneLoop == Cardinality(ActiveLoops) <= 1

\* C27: after stop_continuous_capture, without another start, the background
\* loop exits also when nobody calls get_latest_capture, so a loop that has
\* not exited yet can take its next step by itself; the frame queue never
\* holds more than 10 entries
C27_LoopExitsAfterStop ==
    /\ camera.frame_queue <= QueueMaxSize
    /\ (~camera.is_running /\ Pc("t1") \notin {"none", "exited"})
          => ENABLED LoopStep("t1")

\* C28: once release has returned, the handle is None and stays None as long
\* as the caller invokes nothing: a background loop still in flight does not
\* open the device again
C28_ReleasedStaysReleased ==
    (Pc("main") = "idle" /\ camera.returned.op = "release")
       => camera.cap = "none"

\* the records in the file that calls of this run have written: the clock
\* starts at 0, and the records of earlier runs are older
RecordsOfCalls(st) ==
    { DecodeTiming(st.items[i]) : i \in
        { k \in 1..Len(st.items) :
            /\ ItemLoads(st.items[k])
            /\ DecodeTiming(st.items[k]).timestamp >= 1 } }

\* C29: calls that do not overlap lose no update: after a successful call
\* through any of the engine instances sharing the backing file, each
\* having loaded it at its construction, the file holds the record of
\* every call made so far, the records of the earlier calls and the new one
C29_NoLostUpdate ==
    [][ (result'.op = "calculate" /\ result'.kind = "record")
          => /\ RecordsOfCalls(store) \subseteq RecordsOfCalls(store')
             /\ result'.record[1] \in RecordsOfCalls(store') ]_vars

\* adaptive_algorithm is non-decreasing around the count of the last call:
\* no smaller count gets a longer time, no larger count a shorter one
MonotoneAtCall ==
    \A x2 \in DirectCounts :
        /\ (0 <= x2 /\ x2 <= CalledWith)
              => AdaptiveAlgorithm(config, history[result.engine], x2) <= Value
        /\ CalledWith <= x2
              => Value <= AdaptiveAlgorithm(config, history[result.engine], x2)

\* C30 as stated: for a fixed history and a configuration with
\* min_green_time <= base_green_time <= max_green_time and a non-negative
\* vehicle_multiplier, adaptive(x) <= adaptive(y) whenever 0 <= x <= y, also
\* across the thresholds at 0.5 and 1.5 times the mean
C30_AdaptiveMonotone ==
    (/\ ConfigInvariant(config) /\ config.vehicle_multiplier >= 0
     /\ result.op = "adaptive_algorithm" /\ CalledWith >= 0)
       => MonotoneAtCall

\* C30, amended: the same for configurations whose base_green_time is not
\* negative
C30_AdaptiveMonotoneNonNegativeBase ==
    (/\ ConfigInvariant(config) /\ config.vehicle_multiplier >= 0
     /\ config.base_green_time >= 0
     /\ result.op = "adaptive_algorithm" /\ CalledWith >= 0)
       => MonotoneAtCall

\* C30 witness: on 10 or more records a call above 1.5 times the mean got
\* the 1.2 scaling, and a count below half the mean gets the 0.8 scaling
C30_Witness ==
    /\ ConfigInvariant(config) /\ config.base_green_time >= 0
    /\ result.op = "adaptive_algorithm"
    /\ Len(history[result.engine]) >= 10
    /\ Value = Trunc(12 * LinearAlgorithm(config, CalledWith), 10)
    /\ Value > LinearAlgorithm(config, CalledWith)
    /\ \E x2 \in DirectCounts :
          /\ 0 <= x2 /\ x2 < CalledWith
          /\ AdaptiveAlgorithm(config, history[result.engine], x2)
                < LinearAlgorithm(config, x2)

============================================================================
